---- MODULE Spec2Model ----
(***************************************************************************)
(* A model of the doppler reference scripts:                               *)
(*   benchmarks/kernels/benchmark_gptoss_moe.py   (SpecBench)              *)
(*   src/debug/reference/hf_layer_out.py          (SpecLayer)              *)
(*   the JSON-configured scripts' validation      (SpecConfig)             *)
(*   src/debug/reference/hf_rope_check.py         (SpecRope, SpecApply)    *)
(* Each script is a sequential program; pc is its position, exc the        *)
(* exception (or SystemExit message) that ended it, printed its stdout.    *)
(***************************************************************************)
EXTENDS Integers, Sequences, FiniteSets, TLC

VARIABLES
    pc,            \* position of the running script
    exc,           \* [type, field]: the exception that ended the script, or NoExc
    printed,       \* what the script has printed, in order
    \* benchmark_gptoss_moe.py
    args,          \* parsed command line
    proc,          \* the finished subprocess: stdout, stderr, returncode
    metrics,       \* parse_metrics' result
    out_file,      \* the ratchet file: NoFile or the JSON document written
    ret,           \* main's return value
    exit_status,   \* the process's exit status (8 bits), once it has exited
    \* hf_layer_out.py
    layer_indices, \* requested layers, in request order
    token,         \* requested token position
    num_layers,    \* the loaded model's layer count
    num_tokens,    \* the tokenized prompt's length
    token_idx,     \* resolved token position
    hidden_states, \* outputs.hidden_states: embeddings, then one entry per layer
    loop_i,        \* position in layer_indices of the running for loop
    \* the JSON-configured scripts
    script,        \* which script runs
    argc,          \* len(sys.argv)
    config,        \* json.load's result: its type and its fields
    \* hf_rope_check.py
    pos,           \* config "pos"
    dim,           \* config "dim", the head dimension
    theta,         \* config "theta", the rotation base
    freqs,         \* compute_rope_freqs' result
    angles,        \* pos * freqs
    test_vec,      \* the vector handed to apply_rope_to_vector
    rotated        \* apply_rope_to_vector's result

benchVars == <<args, proc, metrics, out_file, ret>>

layerVars == <<layer_indices, token, num_layers, num_tokens, token_idx, hidden_states, loop_i>>

configVars == <<script, argc, config>>

ropeVars == <<pos, dim, theta, freqs, angles, test_vec, rotated>>

notBench == <<layerVars, configVars, ropeVars>>

notLayer == <<benchVars, configVars, ropeVars>>

notConfig == <<benchVars, layerVars, ropeVars>>

notRope == <<benchVars, layerVars, configVars>>

vars == <<pc, exc, printed, exit_status, benchVars, layerVars, configVars, ropeVars>>

NoExc == [type |-> "none", field |-> "", msg |-> ""]

Raise(type) == [type |-> type, field |-> "", msg |-> ""]

Min(a, b) == IF a < b THEN a ELSE b

Abs(x) == IF x < 0 THEN -x ELSE x

(***************************************************************************)
(* Python values: None and float.  A float parsed from decimal text is     *)
(* kept exactly, as m * 10^-e with no trailing fractional zero.            *)
(***************************************************************************)
PyNone == [t |-> "None", m |-> 0, e |-> 0]

RECURSIVE Normalize(_, _)
Normalize(m, e) ==
    IF e > 0 /\ m % 10 = 0 THEN Normalize(m \div 10, e - 1)
    ELSE [t |-> "float", m |-> m, e |-> e]

PyFloat(m, e) == Normalize(m, e)

(***************************************************************************)
(* Text of the subprocess.  A line is "First token: <num>ms", "Generated:  *)
(* 100 tokens (<num> tok/s)" or some other line; <num> is the (possibly    *)
(* empty) run of characters of [0-9.] that stands where the number goes.   *)
(***************************************************************************)
MaxLines == 3

Numerals ==
    { <<>>,
      <<"1", "2", ".", "5">>,
      <<"3", "3", ".", "3">>,
      <<".">>,
      <<"1", ".", "2", ".", "3">> }

Lines ==
    { [kind |-> "other", num |-> <<>>] }
      \cup { [kind |-> k, num |-> n] : k \in {"first_token", "generated"}, n \in Numerals }

Texts(n) == UNION { [1..k -> Lines] : k \in 0..n }

DigitValue(c) ==
    CASE c = "0" -> 0 [] c = "1" -> 1 [] c = "2" -> 2 [] c = "3" -> 3 [] c = "4" -> 4
      [] c = "5" -> 5 [] c = "6" -> 6 [] c = "7" -> 7 [] c = "8" -> 8 [] c = "9" -> 9

CountDots(s) == Cardinality({ i \in 1..Len(s) : s[i] = "." })

DotAt(s) == IF CountDots(s) = 0 THEN Len(s) + 1 ELSE CHOOSE i \in 1..Len(s) : s[i] = "."

RECURSIVE DigitsValue(_)
DigitsValue(s) ==
    IF s = <<>> THEN 0
    ELSE IF s[Len(s)] = "." THEN DigitsValue(SubSeq(s, 1, Len(s) - 1))
    ELSE 10 * DigitsValue(SubSeq(s, 1, Len(s) - 1)) + DigitValue(s[Len(s)])

\* float(s) for s over [0-9.]: a literal needs a digit and at most one point.
FloatOk(s) == CountDots(s) <= 1 /\ Len(s) - CountDots(s) >= 1

FloatOf(s) == PyFloat(DigitsValue(s), Len(s) - Min(DotAt(s), Len(s)))

METRIC_KEYS == <<"first_token_ms", "tokens_per_s">>

PatternKind(key) == IF key = "first_token_ms" THEN "first_token" ELSE "generated"

\* pattern.search(output): the leftmost match; the group [0-9.]+ needs one character.
Matches(key, line) == line.kind = PatternKind(key) /\ Len(line.num) >= 1

SearchLast(key, output) ==
    LET hits == { i \in 1..Len(output) : Matches(key, output[i]) }
    IN  IF hits = {} THEN 0 ELSE CHOOSE i \in hits : \A j \in hits : j <= i

RECURSIVE SearchFrom(_, _, _)
SearchFrom(key, output, i) ==
    IF i > Len(output) THEN 0
    ELSE IF Matches(key, output[i]) THEN i
    ELSE SearchFrom(key, output, i + 1)

Search(key, output) == SearchFrom(key, output, 1)

SparseMetrics == << >>

InitialMetrics == [k \in {"first_token_ms", "tokens_per_s"} |-> PyNone]

Put(d, key, value) == [k \in DOMAIN d \cup {key} |-> IF k = key THEN value ELSE d[k]]

\* parse_metrics: the loop over METRIC_PATTERNS, in the dict's order; float() raises
\* ValueError on the first matched group that is no literal.
RECURSIVE ParseLoop(_, _, _)
ParseLoop(output, k, acc) ==
    IF k > Len(METRIC_KEYS) THEN [raised |-> FALSE, metrics |-> acc]
    ELSE LET key == METRIC_KEYS[k]
             at  == Search(key, output)
         IN  IF at = 0 THEN ParseLoop(output, k + 1, acc)
             ELSE IF ~FloatOk(output[at].num) THEN [raised |-> TRUE, metrics |-> acc]
             ELSE ParseLoop(output, k + 1, Put(acc, key, FloatOf(output[at].num)))

parse_metrics(output) == ParseLoop(output, 1, InitialMetrics)

(***************************************************************************)
(* JSON values as json.dumps writes them.                                  *)
(***************************************************************************)
JNull == [t |-> "null", s |-> "", m |-> 0, e |-> 0]

JString(s) == [t |-> "string", s |-> s, m |-> 0, e |-> 0]

JNumber(m, e) == [t |-> "number", s |-> "", m |-> m, e |-> e]

JsonOfPy(v) == IF v.t = "None" THEN JNull ELSE JNumber(v.m, v.e)

\* json.dumps(payload): str -> string, int and float -> number, None -> null,
\* a dict -> an object with the same keys.
JsonDumps(payload) ==
    [k \in DOMAIN payload |->
        IF k = "metrics"
        THEN [j \in DOMAIN payload[k] |-> JsonOfPy(payload[k][j])]
        ELSE IF k \in {"maxTokens", "returnCode"} THEN JNumber(payload[k], 0)
        ELSE JString(payload[k])]

Payload(a, p, mt) ==
    [model |-> a.model, runtimePreset |-> a.runtime_preset, prompt |-> a.prompt,
     maxTokens |-> a.max_tokens, returnCode |-> p.returncode, metrics |-> mt]

\* output = (proc.stdout or "") + "\n" + (proc.stderr or "")
Output(p) == p.stdout \o p.stderr

\* sys.exit(n): the status the parent sees is n's low 8 bits.
ExitStatus(n) == n % 256

ReturnCodes == {0, 1, -9}

ArgSets ==
    { [model |-> "gpt-oss-20b", runtime_preset |-> "bench", prompt |-> "short",
       max_tokens |-> 64] }

NoFile == [written |-> FALSE, doc |-> << >>]

NoRet == [returned |-> FALSE, value |-> 0]

NoStatus == [exited |-> FALSE, status |-> 0]

Exited(n) == [exited |-> TRUE, status |-> n]

BenchIdle ==
    /\ args = [model |-> "", runtime_preset |-> "", prompt |-> "", max_tokens |-> 0]
    /\ proc = [stdout |-> << >>, stderr |-> << >>, returncode |-> 0]
    /\ metrics = << >>
    /\ out_file = NoFile
    /\ ret = NoRet

LayerIdle ==
    /\ layer_indices = << >>
    /\ token = 0
    /\ num_layers = 0
    /\ num_tokens = 0
    /\ token_idx = 0
    /\ hidden_states = << >>
    /\ loop_i = 0

ConfigIdle ==
    /\ script = ""
    /\ argc = 0
    /\ config = [t |-> "none", fields |-> << >>]

RopeIdle ==
    /\ pos = 0
    /\ dim = 0
    /\ theta = 0
    /\ freqs = << >>
    /\ angles = << >>
    /\ test_vec = << >>
    /\ rotated = << >>

InitBench ==
    /\ pc = "start"
    /\ exc = NoExc
    /\ printed = << >>
    /\ args \in ArgSets
    /\ proc = [stdout |-> << >>, stderr |-> << >>, returncode |-> 0]
    /\ metrics = << >>
    /\ out_file = NoFile
    /\ ret = NoRet
    /\ exit_status = NoStatus
    /\ LayerIdle
    /\ ConfigIdle
    /\ RopeIdle

\* line 60: the subprocess runs to its end; its text and exit code are its own.
RunBench ==
    /\ pc = "start"
    /\ \E text \in Texts(MaxLines), rc \in ReturnCodes :
         \E k \in 0..Len(text) :
            proc' = [stdout |-> SubSeq(text, 1, k),
                     stderr |-> SubSeq(text, k + 1, Len(text)),
                     returncode |-> rc]
    /\ pc' = "ran"
    /\ UNCHANGED <<exc, printed, args, metrics, out_file, ret, exit_status, notBench>>

\* lines 61-62: an uncaught ValueError ends the interpreter with status 1.
ParseOutput ==
    /\ pc = "ran"
    /\ LET r == parse_metrics(Output(proc))
       IN  IF r.raised
           THEN /\ exc' = Raise("ValueError")
                /\ pc' = "raised"
                /\ exit_status' = Exited(1)
                /\ UNCHANGED metrics
           ELSE /\ metrics' = r.metrics
                /\ pc' = "parsed"
                /\ UNCHANGED <<exc, exit_status>>
    /\ UNCHANGED <<printed, args, proc, out_file, ret, notBench>>

\* lines 64-77
WriteRatchet ==
    /\ pc = "parsed"
    /\ LET payload == Payload(args, proc, metrics)
       IN  /\ out_file' = [written |-> TRUE, doc |-> JsonDumps(payload)]
           /\ printed' = Append(printed, JsonDumps(payload))
    /\ pc' = "written"
    /\ UNCHANGED <<exc, args, proc, metrics, ret, exit_status, notBench>>

\* lines 78 and 82
ReturnBench ==
    /\ pc = "written"
    /\ ret' = [returned |-> TRUE, value |-> proc.returncode]
    /\ exit_status' = Exited(ExitStatus(proc.returncode))
    /\ pc' = "done"
    /\ UNCHANGED <<exc, printed, args, proc, metrics, out_file, notBench>>

NextBench == RunBench \/ ParseOutput \/ WriteRatchet \/ ReturnBench

SpecBench == InitBench /\ [][NextBench]_vars

(***************************************************************************)
(* Claims about benchmark_gptoss_moe.py, checked under SpecBench.          *)
(***************************************************************************)
BenchEnded == pc \in {"done", "raised"}

BenchParsed == pc \in {"parsed", "written", "done", "raised"}

CombinedText == proc.stdout \o proc.stderr

Hits(key) == { i \in 1..Len(CombinedText) : Matches(key, CombinedText[i]) }

FirstHit(key) == CHOOSE i \in Hits(key) : \A j \in Hits(key) : i <= j

MetricKeySet == {"first_token_ms", "tokens_per_s"}

\* C1: whatever the subprocess's exit code rc, when the driver ends the ratchet
\* file has been written with returnCode = rc and the parsed metrics, and the
\* driver's return value is rc.
C1_RatchetWrittenAndCodePropagated ==
    BenchEnded =>
        /\ out_file.written
        /\ out_file.doc.returnCode = JNumber(proc.returncode, 0)
        /\ \A k \in MetricKeySet : out_file.doc.metrics[k] = JsonOfPy(metrics[k])
        /\ ret.returned
        /\ ret.value = proc.returncode

\* C2: parse_metrics never fails: once it has run no exception is pending, both
\* metrics are keys of the result, and a metric whose pattern has no match is None.
C2_ParseMetricsNeverFails ==
    BenchParsed =>
        /\ exc = NoExc
        /\ DOMAIN metrics = MetricKeySet
        /\ \A k \in MetricKeySet : Hits(k) = {} => metrics[k] = PyNone

\* C3 (as amended): the ratchet document has exactly the fields model,
\* runtimePreset, prompt, maxTokens, returnCode and metrics, and metrics has the
\* keys first_token_ms and tokens_per_s, each a number or null.
C3_RatchetShape ==
    out_file.written =>
        /\ DOMAIN out_file.doc =
              {"model", "runtimePreset", "prompt", "maxTokens", "returnCode", "metrics"}
        /\ out_file.doc.model.t = "string"
        /\ out_file.doc.runtimePreset.t = "string"
        /\ out_file.doc.prompt.t = "string"
        /\ out_file.doc.maxTokens.t = "number"
        /\ out_file.doc.returnCode.t = "number"
        /\ DOMAIN out_file.doc.metrics = {"first_token_ms", "tokens_per_s"}
        /\ \A k \in DOMAIN out_file.doc.metrics :
              out_file.doc.metrics[k].t \in {"number", "null"}

\* C3 as the claim states it: the metrics object's keys are firstTokenMs and tokensPerS.
C3_RatchetShapeCamelCase ==
    out_file.written =>
        /\ DOMAIN out_file.doc =
              {"model", "runtimePreset", "prompt", "maxTokens", "returnCode", "metrics"}
        /\ DOMAIN out_file.doc.metrics = {"firstTokenMs", "tokensPerS"}
        /\ \A k \in DOMAIN out_file.doc.metrics :
              out_file.doc.metrics[k].t \in {"number", "null"}

C3_Witness ==
    /\ out_file.written
    /\ proc.returncode # 0
    /\ out_file.doc.metrics["first_token_ms"].t = "number"
    /\ out_file.doc.metrics["tokens_per_s"].t = "null"

MaxTokens == 3

MaxLayers == 2

MaxRequested == 2

HiddenSize == 2

FIRST_N == 8

\* Indexing a tuple or a tensor dimension of length n with k, as Python and torch
\* do it: k in [-n, n) is accepted, a negative k counting from the end.
IndexOk(n, k) == -n <= k /\ k < n

IndexAt(n, k) == IF k < 0 THEN n + k ELSE k

\* Values are in units of 10^-5.  hidden_states[k][p] is the vector of tuple
\* entry k (0 is the embeddings) at position p; every element differs.
HiddenValue(k, p, j) ==
    LET v == (100 * k + 10 * p + j) * 1234
    IN  IF (k + p + j) % 2 = 1 THEN -v ELSE v

HiddenStates(nl, nt) ==
    [k \in 1..(nl + 1) |-> [p \in 1..nt |-> [j \in 1..HiddenSize |->
        HiddenValue(k - 1, p - 1, j)]]]

\* f"{v:.4f}" of num/den (units of 10^-5), in units of 10^-4, ties to even.
Fmt4(num, den) ==
    LET d == 10 * den
        q == num \div d
        r == num % d
    IN  IF 2 * r > d \/ (2 * r = d /\ q % 2 = 1) THEN q + 1 ELSE q

RECURSIVE SumAbs(_)
SumAbs(vec) == IF vec = << >> THEN 0 ELSE Abs(Head(vec)) + SumAbs(Tail(vec))

MaxAbs(vec) == CHOOSE m \in { Abs(vec[j]) : j \in 1..Len(vec) } :
                  \A j \in 1..Len(vec) : Abs(vec[j]) <= m

FirstValues(vec) == [j \in 1..Min(FIRST_N, Len(vec)) |-> Fmt4(vec[j], 1)]

NoStats == [first |-> << >>, maxAbs |-> 0, meanAbs |-> 0]

Line(kind) == [kind |-> kind, layer |-> 0, token |-> 0, stats |-> NoStats]

\* lines 80-86: vals, max_abs, mean_abs of one position's vector, as printed
StatsEntry(layer_idx, tok, vec) ==
    [kind |-> "stats", layer |-> layer_idx, token |-> tok,
     stats |-> [first |-> FirstValues(vec),
                maxAbs |-> Fmt4(MaxAbs(vec), 1),
                meanAbs |-> Fmt4(SumAbs(vec), Len(vec))]]

\* lines 94-96: the reference line prints no mean
BosEntry(layer_idx, vec) ==
    [kind |-> "bos", layer |-> layer_idx, token |-> 0,
     stats |-> [first |-> FirstValues(vec),
                maxAbs |-> Fmt4(MaxAbs(vec), 1),
                meanAbs |-> 0]]

OutOfRangeEntry(layer_idx) ==
    [kind |-> "oor", layer |-> layer_idx, token |-> 0, stats |-> NoStats]

ResolveTokenIdxOffByOne(tok, nt) == IF tok >= 0 THEN tok ELSE nt + tok + 1

\* line 59: token_idx = token if token >= 0 else num_tokens + token
ResolveTokenIdx(tok, nt) == IF tok >= 0 THEN tok ELSE nt + tok

LayerArgs == (0 - MaxLayers - 2)..(MaxLayers + 1)

TokenArgs == (0 - 2 * MaxTokens - 1)..(MaxTokens + 1)

LayerLists == UNION { [1..n -> LayerArgs] : n \in 1..MaxRequested }

InitLayer ==
    /\ pc = "start"
    /\ exc = NoExc
    /\ printed = << >>
    /\ exit_status = NoStatus
    /\ BenchIdle
    /\ ConfigIdle
    /\ RopeIdle
    /\ layer_indices \in LayerLists
    /\ token \in TokenArgs
    /\ num_layers \in 1..MaxLayers
    /\ num_tokens \in 1..MaxTokens
    /\ token_idx = 0
    /\ hidden_states = << >>
    /\ loop_i = 0

\* lines 52-63: load the model, tokenize the prompt, resolve the position
Tokenize ==
    /\ pc = "start"
    /\ token_idx' = ResolveTokenIdx(token, num_tokens)
    /\ printed' = printed \o <<Line("loading"), Line("prompt"), Line("token_ids"),
                              [Line("checking") EXCEPT !.token =
                                  ResolveTokenIdx(token, num_tokens)]>>
    /\ pc' = "forward"
    /\ UNCHANGED <<exc, exit_status, notLayer, layer_indices, token, num_layers,
                   num_tokens, hidden_states, loop_i>>

\* lines 66-70: the forward pass
Forward ==
    /\ pc = "forward"
    /\ hidden_states' = HiddenStates(num_layers, num_tokens)
    /\ printed' = Append(printed, Line("num_hidden"))
    /\ loop_i' = 1
    /\ pc' = "first_pass"
    /\ UNCHANGED <<exc, exit_status, notLayer, layer_indices, token, num_layers,
                   num_tokens, token_idx>>

\* An uncaught IndexError ends the interpreter with status 1.
LayerRaise ==
    /\ exc' = Raise("IndexError")
    /\ exit_status' = Exited(1)
    /\ pc' = "raised"
    /\ UNCHANGED <<printed, loop_i>>

\* lines 72-86 with the reference line of lines 93-96 printed in the same iteration
FirstPassStepInterleaved ==
    /\ pc = "first_pass"
    /\ loop_i <= Len(layer_indices)
    /\ LET layer_idx == layer_indices[loop_i]
           n == Len(hidden_states)
       IN  IF layer_idx >= n - 1
           THEN /\ printed' = Append(printed, OutOfRangeEntry(layer_idx))
                /\ loop_i' = loop_i + 1
                /\ UNCHANGED <<pc, exc, exit_status>>
           ELSE IF ~IndexOk(n, layer_idx + 1) \/ ~IndexOk(num_tokens, token_idx)
           THEN LayerRaise
           ELSE LET hs == hidden_states[IndexAt(n, layer_idx + 1) + 1]
                IN  /\ printed' = printed \o
                          <<StatsEntry(layer_idx, token_idx,
                                       hs[IndexAt(num_tokens, token_idx) + 1]),
                            BosEntry(layer_idx, hs[1])>>
                    /\ loop_i' = loop_i + 1
                    /\ UNCHANGED <<pc, exc, exit_status>>
    /\ UNCHANGED <<notLayer, layer_indices, token, num_layers, num_tokens,
                   token_idx, hidden_states>>

\* lines 72-86: one iteration of the first loop
FirstPassStep ==
    /\ pc = "first_pass"
    /\ loop_i <= Len(layer_indices)
    /\ LET layer_idx == layer_indices[loop_i]
           n == Len(hidden_states)
       IN  IF layer_idx >= n - 1
           THEN /\ printed' = Append(printed, OutOfRangeEntry(layer_idx))
                /\ loop_i' = loop_i + 1
                /\ UNCHANGED <<pc, exc, exit_status>>
           ELSE IF ~IndexOk(n, layer_idx + 1) \/ ~IndexOk(num_tokens, token_idx)
           THEN LayerRaise
           ELSE LET hs == hidden_states[IndexAt(n, layer_idx + 1) + 1]
                IN  /\ printed' = Append(printed,
                          StatsEntry(layer_idx, token_idx,
                                     hs[IndexAt(num_tokens, token_idx) + 1]))
                    /\ loop_i' = loop_i + 1
                    /\ UNCHANGED <<pc, exc, exit_status>>
    /\ UNCHANGED <<notLayer, layer_indices, token, num_layers, num_tokens,
                   token_idx, hidden_states>>

\* line 89: the first loop is over; the reference header
BosHeader ==
    /\ pc = "first_pass"
    /\ loop_i > Len(layer_indices)
    /\ printed' = Append(printed, Line("bos_header"))
    /\ loop_i' = 1
    /\ pc' = "bos_pass"
    /\ UNCHANGED <<exc, exit_status, notLayer, layer_indices, token, num_layers,
                   num_tokens, token_idx, hidden_states>>

\* lines 90-96: one iteration of the reference loop
BosPassStep ==
    /\ pc = "bos_pass"
    /\ loop_i <= Len(layer_indices)
    /\ LET layer_idx == layer_indices[loop_i]
           n == Len(hidden_states)
       IN  IF layer_idx >= n - 1
           THEN /\ loop_i' = loop_i + 1
                /\ UNCHANGED <<pc, exc, exit_status, printed>>
           ELSE IF ~IndexOk(n, layer_idx + 1) \/ ~IndexOk(num_tokens, 0)
           THEN LayerRaise
           ELSE LET hs == hidden_states[IndexAt(n, layer_idx + 1) + 1]
                IN  /\ printed' = Append(printed, BosEntry(layer_idx, hs[1]))
                    /\ loop_i' = loop_i + 1
                    /\ UNCHANGED <<pc, exc, exit_status>>
    /\ UNCHANGED <<notLayer, layer_indices, token, num_layers, num_tokens,
                   token_idx, hidden_states>>

\* line 100: main returns
LayerDone ==
    /\ pc = "bos_pass"
    /\ loop_i > Len(layer_indices)
    /\ pc' = "done"
    /\ exit_status' = Exited(0)
    /\ UNCHANGED <<exc, printed, layerVars, notLayer>>

NextLayer == Tokenize \/ Forward \/ FirstPassStep \/ BosHeader \/ BosPassStep \/ LayerDone

SpecLayer == InitLayer /\ [][NextLayer]_vars

(***************************************************************************)
(* Claims about hf_layer_out.py, checked under SpecLayer.                  *)
(***************************************************************************)
LayerEnded == pc \in {"done", "raised"}

IsFirstPassEntry(e) == e.kind \in {"stats", "oor"}

IsEntry(e) == e.kind \in {"stats", "oor", "bos"}

IsBos(e) == e.kind = "bos"

Entries == SelectSeq(printed, IsEntry)

FirstPassEntries == SelectSeq(printed, IsFirstPassEntry)

BosEntries == SelectSeq(printed, IsBos)

\* The requested position after negative-index resolution.
RequestedPosition == IF token >= 0 THEN token ELSE num_tokens + token

PositionInRange == 0 <= RequestedPosition /\ RequestedPosition < num_tokens

LayerInRange(l) == 0 <= l /\ l < num_layers

AllLayersValid == \A n \in 1..Len(layer_indices) : LayerInRange(layer_indices[n])

\* C4: with valid layers requested, a position that is outside [0, length) after
\* resolution ends the run normally with an out-of-range entry for every layer,
\* and the position-0 reference of every layer is still reported.
C4_PositionOutOfRangeMarked ==
    (LayerEnded /\ AllLayersValid /\ ~PositionInRange) =>
        /\ exc = NoExc
        /\ Len(FirstPassEntries) = Len(layer_indices)
        /\ \A n \in 1..Len(layer_indices) :
              /\ FirstPassEntries[n].kind = "oor"
              /\ FirstPassEntries[n].layer = layer_indices[n]
        /\ Len(BosEntries) = Len(layer_indices)

\* C5 (as amended): layers are reported in request order, every
\* requested-position entry before every position-0 reference entry, and the
\* reference entries follow the order of the layers that received statistics.
C5_TwoPassOrder ==
    /\ \A a, b \in 1..Len(Entries) :
          (a < b /\ Entries[a].kind = "bos") => Entries[b].kind = "bos"
    /\ Len(FirstPassEntries) <= Len(layer_indices)
    /\ \A n \in 1..Len(FirstPassEntries) : FirstPassEntries[n].layer = layer_indices[n]
    /\ LET stats == SelectSeq(FirstPassEntries, LAMBDA e : e.kind = "stats")
       IN  /\ Len(BosEntries) <= Len(stats)
           /\ \A n \in 1..Len(BosEntries) : BosEntries[n].layer = stats[n].layer
    /\ pc = "done" => Len(FirstPassEntries) = Len(layer_indices)

\* C5 as the claim states it: each layer's requested-position entry is
\* immediately followed by that layer's position-0 reference entry.
C5_InterleavedOrder ==
    (pc = "done" /\ AllLayersValid /\ PositionInRange) =>
        \A a \in 1..Len(Entries) :
            Entries[a].kind = "stats" =>
                /\ a + 1 <= Len(Entries)
                /\ Entries[a + 1].kind = "bos"
                /\ Entries[a + 1].layer = Entries[a].layer

C5_Witness ==
    /\ pc = "done"
    /\ Len(layer_indices) = 2
    /\ layer_indices[1] # layer_indices[2]
    /\ AllLayersValid
    /\ Len(Entries) = 4
    /\ [n \in 1..4 |-> Entries[n].kind] = <<"stats", "stats", "bos", "bos">>
    /\ [n \in 1..4 |-> Entries[n].layer] =
          <<layer_indices[1], layer_indices[2], layer_indices[1], layer_indices[2]>>

\* C8: the resolved index of a negative position t, -L <= t < 0, is L + t, a
\* non-negative position is used unchanged, and every statistics entry is the
\* one of the vector at the resolved non-negative position.
C8_NegativeIndexResolution ==
    pc # "start" =>
        /\ token >= 0 => token_idx = token
        /\ (token < 0 /\ 0 - num_tokens <= token) => token_idx = num_tokens + token
        /\ PositionInRange =>
              \A n \in 1..Len(FirstPassEntries) :
                  LET e == FirstPassEntries[n]
                      hs == hidden_states[IndexAt(Len(hidden_states), e.layer + 1) + 1]
                  IN  e.kind = "stats" =>
                          e = StatsEntry(e.layer, RequestedPosition,
                                         hs[RequestedPosition + 1])

C8_Witness ==
    /\ pc = "done"
    /\ token = 0 - 1
    /\ num_tokens = MaxTokens
    /\ AllLayersValid
    /\ \E n \in 1..Len(FirstPassEntries) :
          /\ FirstPassEntries[n].kind = "stats"
          /\ FirstPassEntries[n].token = MaxTokens - 1
          /\ FirstPassEntries[n].stats.first[1] =
                 Fmt4(HiddenValue(layer_indices[n] + 1, MaxTokens - 1, 1), 1)

\* The layers of the first-pass entries that carry statistics, in order
StatsLayers ==
    LET stats == SelectSeq(FirstPassEntries, LAMBDA e : e.kind = "stats")
    IN  [n \in 1..Len(stats) |-> stats[n].layer]

\* C13: for any list of requested layers and a position in range, the run ends
\* with exactly one first-pass entry (statistics or OUT OF RANGE) per requested
\* layer, in request order, and with one position-0 reference entry for exactly
\* the layers that received statistics, in the same order, none for the others.
C13_OneEntryPerRequestedLayer ==
    (LayerEnded /\ PositionInRange) =>
        /\ [n \in 1..Len(FirstPassEntries) |-> FirstPassEntries[n].layer] = layer_indices
        /\ [n \in 1..Len(BosEntries) |-> BosEntries[n].layer] = StatsLayers

\* C10: with the position in range, every requested layer outside
\* [0, numLayers), negative ones included, gets an OUT OF RANGE entry, no
\* exception is raised, and every requested layer gets its entry.
C10_LayerOutOfRangeMarked ==
    (LayerEnded /\ PositionInRange) =>
        /\ exc = NoExc
        /\ Len(FirstPassEntries) = Len(layer_indices)
        /\ \A n \in 1..Len(layer_indices) :
              ~LayerInRange(layer_indices[n]) =>
                  FirstPassEntries[n] = OutOfRangeEntry(layer_indices[n])

(***************************************************************************)
(* The JSON-configured scripts: hf_layer_out, hf_rope_check, hf_weights,   *)
(* hf_attn_debug, hf_embed_check.  A JSON value is [t, s, n, items]: its   *)
(* type, and its text, number or elements; "absent" is a key the document  *)
(* does not have (config.get gives None, as for null).                     *)
(***************************************************************************)
JAbsent == [t |-> "absent", s |-> "", n |-> 0, items |-> << >>]

JNone == [t |-> "null", s |-> "", n |-> 0, items |-> << >>]

JStr(s) == [t |-> "str", s |-> s, n |-> 0, items |-> << >>]

JInt(n) == [t |-> "int", s |-> "", n |-> n, items |-> << >>]

JBool(b) == [t |-> "bool", s |-> "", n |-> IF b THEN 1 ELSE 0, items |-> << >>]

JFloat(n) == [t |-> "float", s |-> "", n |-> n, items |-> << >>]

JList(items) == [t |-> "list", s |-> "", n |-> 0, items |-> items]

IsInstanceStr(v) == v.t = "str"

\* isinstance(v, int): bool is a subclass of int
IsInstanceInt(v) == v.t \in {"int", "bool"}

\* isinstance(v, (int, float))
IsInstanceNumber(v) == v.t \in {"int", "bool", "float"}

IsInstanceList(v) == v.t = "list"

\* not s.strip()
StripsToEmpty(s) == s \in {"", " ", "  "}

ConfigError(key, msg) == [type |-> "SystemExit", field |-> key, msg |-> msg]

RECURSIVE FirstError(_)
FirstError(checks) ==
    IF checks = << >> THEN NoExc
    ELSE IF Head(checks) # NoExc THEN Head(checks)
    ELSE FirstError(Tail(checks))

require_string(cfg, key) ==
    IF ~IsInstanceStr(cfg[key]) \/ StripsToEmpty(cfg[key].s)
    THEN ConfigError(key, "must be a non-empty string") ELSE NoExc

require_int(cfg, key) ==
    IF ~IsInstanceInt(cfg[key])
    THEN ConfigError(key, "must be an integer") ELSE NoExc

require_number(cfg, key) ==
    IF ~IsInstanceNumber(cfg[key])
    THEN ConfigError(key, "must be a number") ELSE NoExc

require_list(cfg, key) ==
    IF ~IsInstanceList(cfg[key]) \/ cfg[key].items = << >>
    THEN ConfigError(key, "must be a non-empty array") ELSE NoExc

require_int_entries(cfg, key) ==
    IF \E n \in 1..Len(cfg[key].items) : ~IsInstanceInt(cfg[key].items[n])
    THEN ConfigError(key, "entries must be integers") ELSE NoExc

PROJ_CHOICES == {"q", "k", "v", "o", "all"}

require_proj(cfg, key) ==
    IF ~(cfg[key].t = "str" /\ cfg[key].s \in PROJ_CHOICES)
    THEN ConfigError(key, "must be one of: q, k, v, o, all") ELSE NoExc

JsonScripts == {"hf_layer_out", "hf_rope_check", "hf_weights", "hf_attn_debug",
                "hf_embed_check"}

\* The checks each main makes, in its order.
Validate(s, cfg) ==
    CASE s = "hf_layer_out" ->
            FirstError(<<require_string(cfg, "model"), require_string(cfg, "prompt"),
                         require_list(cfg, "layers"), require_int_entries(cfg, "layers"),
                         require_int(cfg, "token")>>)
      [] s = "hf_rope_check" ->
            FirstError(<<require_string(cfg, "model"), require_int(cfg, "pos"),
                         require_int(cfg, "dim"), require_number(cfg, "theta")>>)
      [] s = "hf_weights" ->
            FirstError(<<require_string(cfg, "model"), require_int(cfg, "layer"),
                         require_proj(cfg, "proj")>>)
      [] s = "hf_attn_debug" ->
            FirstError(<<require_string(cfg, "model"), require_string(cfg, "prompt"),
                         require_int(cfg, "layer")>>)
      [] s = "hf_embed_check" ->
            FirstError(<<require_string(cfg, "model"), require_string(cfg, "prompt")>>)

\* What each required field must be.
FieldKinds(s) ==
    CASE s = "hf_layer_out" ->
            [model |-> "string", prompt |-> "string", layers |-> "int_list", token |-> "int"]
      [] s = "hf_rope_check" ->
            [model |-> "string", pos |-> "int", dim |-> "int", theta |-> "number"]
      [] s = "hf_weights" -> [model |-> "string", layer |-> "int", proj |-> "proj"]
      [] s = "hf_attn_debug" -> [model |-> "string", prompt |-> "string", layer |-> "int"]
      [] s = "hf_embed_check" -> [model |-> "string", prompt |-> "string"]

\* The documents tried: per kind of field, right, absent and ill-typed values.
FieldValues(kind) ==
    CASE kind = "string" -> {JStr("google/gemma-2-2b-it"), JStr(" "), JAbsent, JInt(1)}
      [] kind = "int" -> {JInt(3), JInt(0 - 1), JAbsent, JStr("3"), JFloat(2), JBool(TRUE)}
      [] kind = "number" -> {JInt(10000), JFloat(10000), JAbsent, JStr("1e4"), JBool(FALSE)}
      [] kind = "int_list" ->
            {JList(<<JInt(0), JInt(12)>>), JList(<< >>), JAbsent, JInt(0),
             JList(<<JInt(0), JStr("1")>>), JList(<<JBool(TRUE)>>), JNone}
      [] kind = "proj" -> {JStr("all"), JStr("q"), JStr("x"), JAbsent, JInt(0), JBool(TRUE)}

Documents(s) ==
    LET kinds == FieldKinds(s)
    IN  { f \in [DOMAIN kinds -> UNION { FieldValues(kinds[k]) : k \in DOMAIN kinds }] :
             \A k \in DOMAIN kinds : f[k] \in FieldValues(kinds[k]) }

InitConfig ==
    /\ pc = "start"
    /\ exc = NoExc
    /\ printed = << >>
    /\ exit_status = NoStatus
    /\ BenchIdle
    /\ LayerIdle
    /\ RopeIdle
    /\ script \in JsonScripts
    /\ argc \in {1, 2}
    /\ \E t \in {"dict", "list"} : \E f \in Documents(script) :
          config = [t |-> t, fields |-> f]

SystemExit(e) ==
    /\ exc' = e
    /\ exit_status' = Exited(1)
    /\ pc' = "exited"

\* len(sys.argv) != 2, json.load, isinstance(config, dict)
LoadConfig ==
    /\ pc = "start"
    /\ IF argc # 2 THEN SystemExit(ConfigError("", "Usage"))
       ELSE IF config.t # "dict" THEN SystemExit(ConfigError("", "Config must be a JSON object"))
       ELSE pc' = "validate" /\ UNCHANGED <<exc, exit_status>>
    /\ UNCHANGED <<printed, notConfig, configVars>>

\* the isinstance checks of main, up to the first that fails
ValidateConfig ==
    /\ pc = "validate"
    /\ LET e == Validate(script, config.fields)
       IN  IF e # NoExc THEN SystemExit(e)
           ELSE pc' = "validated" /\ UNCHANGED <<exc, exit_status>>
    /\ UNCHANGED <<printed, notConfig, configVars>>

\* the first print after the checks ("Loading model: ...", "RoPE Check for ...")
Proceed ==
    /\ pc = "validated"
    /\ printed' = Append(printed, Line(IF script = "hf_rope_check" THEN "rope_check"
                                       ELSE "loading"))
    /\ pc' = "running"
    /\ UNCHANGED <<exc, exit_status, notConfig, configVars>>

NextConfig == LoadConfig \/ ValidateConfig \/ Proceed

SpecConfig == InitConfig /\ [][NextConfig]_vars

\* A required field as the claim reads it: absent, or not of the JSON type asked
\* for (a JSON boolean is no integer and no number), or without content.
Malformed(kind, v) ==
    CASE kind = "string" -> v.t # "str" \/ v.s \in {"", " ", "  "}
      [] kind = "int" -> v.t # "int"
      [] kind = "number" -> v.t \notin {"int", "float"}
      [] kind = "int_list" ->
            \/ v.t # "list"
            \/ v.items = << >>
            \/ \E n \in 1..Len(v.items) : v.items[n].t # "int"
      [] kind = "proj" -> v.t # "str" \/ v.s \notin {"q", "k", "v", "o", "all"}

MalformedFields ==
    { k \in DOMAIN config.fields : Malformed(FieldKinds(script)[k], config.fields[k]) }

\* C6: in every JSON-configured script, once the checks have run, a required
\* field that is absent or of the wrong type has ended the script with a non-zero
\* status and a message naming such a field, and nothing has been printed.
C6_MalformedFieldRejected ==
    (pc \in {"exited", "validated", "running"} /\ argc = 2 /\ config.t = "dict"
       /\ MalformedFields # {})
    =>
        /\ pc = "exited"
        /\ exc.type = "SystemExit"
        /\ exc.field \in MalformedFields
        /\ exit_status.exited /\ exit_status.status # 0
        /\ printed = << >>

(***************************************************************************)
(* hf_rope_check.py, from the validated config on.  A frequency is kept    *)
(* symbolically: 1.0 / base ** (num / den), with the kind of float that    *)
(* expression evaluates to.                                                *)
(***************************************************************************)
MaxDim == 6

MaxPos == 2

\* torch.arange(0, n, 2) has ceil(n / 2) elements, none for n = 0; for n < 0
\* torch refuses the bounds with a RuntimeError.
ArangeLen(n) == IF n <= 0 THEN 0 ELSE (n + 1) \div 2

ArangeOk(n) == n >= 0

\* 1.0 / (base ** x) for x = num / den in [0, 1): base ** 0 is 1; 0 ** x is 0 and
\* 1.0 / 0 is inf; a negative base to a fractional power is nan.
FloatKind(base, num) ==
    IF num = 0 \/ base > 0 THEN "finite"
    ELSE IF base = 0 THEN "inf"
    ELSE "nan"

Freq(base, num, den) == [kind |-> FloatKind(base, num), base |-> base, num |-> num, den |-> den]

\* line 28: freqs = 1.0 / (theta ** (torch.arange(0, head_dim, 2).float() / head_dim))
compute_rope_freqs(head_dim, base) ==
    [n \in 1..ArangeLen(head_dim) |-> Freq(base, 2 * (n - 1), head_dim)]

\* A float32 value of the rotary arithmetic, held symbolically: an exact number
\* v, nan, or c * cos(ang) + s * sin(ang) for an angle that is neither zero nor
\* nan. Rounding is left out.
NoAngle == [kind |-> "none", pos |-> 0, freq |-> [kind |-> "none", base |-> 0, num |-> 0, den |-> 0]]

Num(v) == [k |-> "num", v |-> v, c |-> 0, s |-> 0, ang |-> NoAngle]

NaN == [k |-> "nan", v |-> 0, c |-> 0, s |-> 0, ang |-> NoAngle]

Opaque == [k |-> "other", v |-> 0, c |-> 0, s |-> 0, ang |-> NoAngle]

Rot(c, s, a) ==
    IF c = 0 /\ s = 0 THEN Num(0)
    ELSE [k |-> "rot", v |-> 0, c |-> c, s |-> s, ang |-> a]

\* line 35: one element of pos * freqs. 0 * inf and anything times nan are nan;
\* a finite frequency 1 / theta ** x is positive, so the product is zero only
\* at position 0.
Angle(p, f) ==
    [kind |-> IF f.kind = "nan" THEN "nan"
              ELSE IF f.kind = "inf" THEN (IF p = 0 THEN "nan" ELSE "inf")
              ELSE IF p = 0 THEN "zero"
              ELSE "finite",
     pos |-> p, freq |-> f]

\* line 36: torch.cos; cos(0) is 1, cos of inf or nan is nan
Cos(a) ==
    IF a.kind = "zero" THEN Num(1)
    ELSE IF a.kind = "finite" THEN Rot(1, 0, a)
    ELSE NaN

\* line 37: torch.sin; sin(0) is 0, sin of inf or nan is nan
Sin(a) ==
    IF a.kind = "zero" THEN Num(0)
    ELSE IF a.kind = "finite" THEN Rot(0, 1, a)
    ELSE NaN

\* lines 44-45: the elementwise product of two values
Mul(a, b) ==
    IF a.k = "nan" \/ b.k = "nan" THEN NaN
    ELSE IF a.k = "num" /\ b.k = "num" THEN Num(a.v * b.v)
    ELSE IF a.k = "num" /\ b.k = "rot" THEN Rot(a.v * b.c, a.v * b.s, b.ang)
    ELSE IF a.k = "rot" /\ b.k = "num" THEN Rot(a.c * b.v, a.s * b.v, a.ang)
    ELSE Opaque

\* line 45: the elementwise sum of two values
Add(a, b) ==
    IF a.k = "nan" \/ b.k = "nan" THEN NaN
    ELSE IF a.k = "num" /\ b.k = "num" THEN Num(a.v + b.v)
    ELSE IF a.k = "rot" /\ b.k = "rot" /\ a.ang = b.ang THEN Rot(a.c + b.c, a.s + b.s, a.ang)
    ELSE IF a.k = "rot" /\ b = Num(0) THEN a
    ELSE IF a = Num(0) /\ b.k = "rot" THEN b
    ELSE Opaque

Neg(a) ==
    IF a.k = "num" THEN Num(0 - a.v)
    ELSE IF a.k = "rot" THEN Rot(0 - a.c, 0 - a.s, a.ang)
    ELSE a

\* line 44: the elementwise difference of two values
Sub(a, b) == Add(a, Neg(b))

\* A one-dimensional tensor, or the RuntimeError an operation on mismatched
\* shapes raised instead of producing one.
Tensor(items) == [ok |-> TRUE, items |-> items]

ShapeError == [ok |-> FALSE, items |-> << >>]

\* len(vec[start::2])
StridedLen(n, start) == IF n <= start THEN 0 ELSE (n - start + 1) \div 2

\* The first half (start 0) or the second half (start 1) of vec, where the
\* pair convention takes every second element.
HalfSplit(vec, start) ==
    [n \in 1..StridedLen(Len(vec), start) |-> vec[start * StridedLen(Len(vec), 0) + n]]

\* lines 40-41: vec[start::2], python's index start + 2k is element start + 2k + 1 here
Strided(vec, start) ==
    [n \in 1..StridedLen(Len(vec), start) |-> vec[start + 2 * (n - 1) + 1]]

\* torch broadcasting of two one-dimensional shapes: equal sizes, or one of
\* them 1 (which is stretched to the other, an empty one included)
Broadcastable(a, b) == a = b \/ a = 1 \/ b = 1

BroadcastLen(a, b) == IF a = 1 THEN b ELSE a

\* Element n of vec stretched to the broadcast shape
Pick(vec, n) == IF Len(vec) = 1 THEN vec[1] ELSE vec[n]

\* One of the operators *, + and - of lines 44-45 on two values
Binary(op, a, b) ==
    IF op = "*" THEN Mul(a, b)
    ELSE IF op = "+" THEN Add(a, b)
    ELSE Sub(a, b)

\* lines 44-45: an elementwise binary operation of torch
Elementwise(op, A, B) ==
    IF A.ok /\ B.ok /\ Broadcastable(Len(A.items), Len(B.items))
    THEN Tensor([n \in 1..BroadcastLen(Len(A.items), Len(B.items)) |->
                    Binary(op, Pick(A.items, n), Pick(B.items, n))])
    ELSE ShapeError

\* lines 49-50: out[start::2] = value needs value to broadcast to the slice
Assignable(slots, value) ==
    value.ok /\ (Len(value.items) = slots \/ Len(value.items) = 1)

\* lines 32-52
apply_rope_to_vector(vec, p, f) ==
    LET cos == Tensor([n \in 1..Len(f) |-> Cos(Angle(p, f[n]))])
        sin == Tensor([n \in 1..Len(f) |-> Sin(Angle(p, f[n]))])
        values == [n \in 1..Len(vec) |-> Num(vec[n])]
        x_even == Tensor(Strided(values, 0))
        x_odd == Tensor(Strided(values, 1))
        out_even == Elementwise("-", Elementwise("*", x_even, cos), Elementwise("*", x_odd, sin))
        out_odd == Elementwise("+", Elementwise("*", x_even, sin), Elementwise("*", x_odd, cos))
    IN  IF Assignable(Len(x_even.items), out_even) /\ Assignable(Len(x_odd.items), out_odd)
        THEN Tensor([n \in 1..Len(vec) |->
                        IF n % 2 = 1 THEN Pick(out_even.items, (n + 1) \div 2)
                        ELSE Pick(out_odd.items, n \div 2)])
        ELSE ShapeError

DimArgs == (0 - 2)..MaxDim

ThetaArgs == {0 - 2, 0, 2, 10000}

PosArgs == 0..MaxPos

InitRope ==
    /\ pc = "start"
    /\ exc = NoExc
    /\ printed = << >>
    /\ exit_status = NoStatus
    /\ BenchIdle
    /\ LayerIdle
    /\ ConfigIdle
    /\ pos \in PosArgs
    /\ dim \in DimArgs
    /\ theta \in ThetaArgs
    /\ freqs = << >>
    /\ angles = << >>
    /\ test_vec = << >>
    /\ rotated = << >>

\* An uncaught RuntimeError or IndexError ends main with exit status 1.
RopeRaise(type) ==
    /\ exc' = Raise(type)
    /\ exit_status' = Exited(1)
    /\ pc' = "raised"

\* lines 78-82
ComputeFreqs ==
    /\ pc = "start"
    /\ IF ArangeOk(dim)
       THEN /\ freqs' = compute_rope_freqs(dim, theta)
            /\ printed' = printed \o <<Line("rope_check"), Line("frequencies")>>
            /\ pc' = "freqs"
            /\ UNCHANGED <<exc, exit_status>>
       ELSE /\ RopeRaise("RuntimeError")
            /\ printed' = printed \o <<Line("rope_check")>>
            /\ UNCHANGED freqs
    /\ UNCHANGED <<notRope, pos, dim, theta, angles, test_vec, rotated>>

\* lines 85-92: angles = pos * freqs, cos and sin printed
ComputeAngles ==
    /\ pc = "freqs"
    /\ angles' = [n \in 1..Len(freqs) |-> [pos |-> pos, freq |-> freqs[n]]]
    /\ printed' = printed \o <<Line("angles"), Line("cos"), Line("sin")>>
    /\ pc' = "angles"
    /\ UNCHANGED <<exc, exit_status, notRope, pos, dim, theta, freqs, test_vec, rotated>>

\* The values torch.randn may put into the test vector
VecValues == {0 - 1, 0, 2}

\* lines 95-98: test_vec = torch.randn(dim); test_vec[0] = 1.0; test_vec[1] = 0.0.
\* An index beyond the vector's end is an IndexError.
TestVector ==
    /\ pc = "angles"
    /\ IF dim < 2
       THEN /\ RopeRaise("IndexError")
            /\ UNCHANGED <<printed, test_vec>>
       ELSE /\ \E randn \in [1..dim -> VecValues] :
                 test_vec' = [n \in 1..dim |-> IF n = 1 THEN 1 ELSE IF n = 2 THEN 0 ELSE randn[n]]
            /\ printed' = printed \o <<Line("test_vector")>>
            /\ pc' = "vector"
            /\ UNCHANGED <<exc, exit_status>>
    /\ UNCHANGED <<notRope, pos, dim, theta, freqs, angles, rotated>>

\* lines 100-101: rotated = apply_rope_to_vector(test_vec, pos, freqs)
ApplyRope ==
    /\ pc = "vector"
    /\ LET r == apply_rope_to_vector(test_vec, pos, freqs)
       IN  IF r.ok
           THEN /\ rotated' = r.items
                /\ printed' = printed \o <<Line("after_rope")>>
                /\ pc' = "rotated"
                /\ UNCHANGED <<exc, exit_status>>
           ELSE /\ RopeRaise("RuntimeError")
                /\ UNCHANGED <<printed, rotated>>
    /\ UNCHANGED <<notRope, pos, dim, theta, freqs, angles, test_vec>>

\* lines 104-112: the loaded model's own rotary configuration is printed
ModelRopeConfig ==
    /\ pc = "rotated"
    /\ printed' = printed \o <<Line("model_rope_config")>>
    /\ pc' = "done"
    /\ exit_status' = Exited(0)
    /\ UNCHANGED <<exc, notRope, ropeVars>>

NextRope == ComputeFreqs \/ ComputeAngles \/ TestVector \/ ApplyRope \/ ModelRopeConfig

SpecRope == InitRope /\ [][NextRope]_vars

\* C7: compute_rope_freqs fails with InvalidDimension for an odd or non-positive
\* headDim and with InvalidBase for a non-positive theta; it returns only for an
\* even positive headDim and a positive theta, and then headDim/2 frequencies.
C7_InvalidInputsRejected ==
    pc # "start" =>
        /\ (dim % 2 = 1 \/ dim <= 0) => exc.type = "InvalidDimension"
        /\ (dim % 2 = 0 /\ dim > 0 /\ theta <= 0) => exc.type = "InvalidBase"
        /\ exc = NoExc => (dim % 2 = 0 /\ dim > 0 /\ theta > 0 /\ Len(freqs) * 2 = dim)

\* apply_rope_to_vector on its own: any vector, any position, any frequencies.
MaxVecLen == 4

MaxFreqs == 2

VecInputs == UNION {[1..n -> VecValues] : n \in 0..MaxVecLen}

\* Two finite frequencies, an infinite one (base 0) and a nan (negative base)
FreqValues == {Freq(10000, 0, 4), Freq(10000, 2, 4), Freq(0, 2, 4), Freq(0 - 2, 2, 4)}

FreqInputs == UNION {[1..n -> FreqValues] : n \in 0..MaxFreqs}

InitApply ==
    /\ pc = "call"
    /\ exc = NoExc
    /\ printed = << >>
    /\ exit_status = NoStatus
    /\ BenchIdle
    /\ LayerIdle
    /\ ConfigIdle
    /\ pos \in PosArgs
    /\ dim = 0
    /\ theta = 0
    /\ freqs \in FreqInputs
    /\ angles = << >>
    /\ test_vec \in VecInputs
    /\ rotated = << >>

\* lines 32-52: the call returns the rotated vector or raises torch's RuntimeError
CallApplyRope ==
    /\ pc = "call"
    /\ LET r == apply_rope_to_vector(test_vec, pos, freqs)
       IN  IF r.ok
           THEN /\ rotated' = r.items
                /\ pc' = "returned"
                /\ UNCHANGED exc
           ELSE /\ exc' = Raise("RuntimeError")
                /\ pc' = "raised"
                /\ UNCHANGED rotated
    /\ UNCHANGED <<printed, exit_status, notRope, pos, dim, theta, freqs, angles, test_vec>>

NextApply == CallApplyRope

SpecApply == InitApply /\ [][NextApply]_vars

AllFinite(f) == \A n \in 1..Len(f) : f[n].kind = "finite"

\* The call's inputs fit: an even-length vector and half as many frequencies,
\* each of them a real number
ShapesFit == Len(test_vec) = 2 * Len(freqs) /\ AllFinite(freqs)

\* x_even * cos(a) - x_odd * sin(a) and x_even * sin(a) + x_odd * cos(a) of one pair
RotatedEven(x_even, x_odd, a) == Sub(Mul(Num(x_even), Cos(a)), Mul(Num(x_odd), Sin(a)))

RotatedOdd(x_even, x_odd, a) == Add(Mul(Num(x_even), Sin(a)), Mul(Num(x_odd), Cos(a)))

\* C11: for an even-length vector and half as many (real) frequencies,
\* apply_rope_to_vector returns a vector of the same length whose slots 2i and
\* 2i+1 are the rotation of input slots 2i and 2i+1 by pos * frequency i and of
\* nothing else; at position 0 every output element equals its input element.
C11_PairConventionAndIdentityAtZero ==
    (pc # "call" /\ ShapesFit) =>
        /\ pc = "returned"
        /\ Len(rotated) = Len(test_vec)
        /\ \A n \in 1..Len(freqs) :
              /\ rotated[2 * n - 1] = RotatedEven(test_vec[2 * n - 1], test_vec[2 * n], Angle(pos, freqs[n]))
              /\ rotated[2 * n] = RotatedOdd(test_vec[2 * n - 1], test_vec[2 * n], Angle(pos, freqs[n]))
        /\ pos = 0 => \A n \in 1..Len(test_vec) : rotated[n] = Num(test_vec[n])

C11_Witness ==
    /\ pc = "returned"
    /\ pos = 0
    /\ test_vec = <<2, 0 - 1, 0, 2>>
    /\ freqs = <<Freq(10000, 0, 4), Freq(10000, 2, 4)>>
    /\ rotated = <<Num(2), Num(0 - 1), Num(0), Num(2)>>

\* C12: apply_rope_to_vector fails whenever the frequency count differs from
\* half the vector length (a single frequency against a longer vector and an
\* odd-length vector included); it never returns a result for such shapes.
C12_MismatchRaises ==
    (pc # "call" /\ Len(test_vec) # 2 * Len(freqs)) => pc = "raised"

====
